---------------------------- MODULE Spec2Model ----------------------------
(***************************************************************************)
(* State-machine model of src/src/main.rs: the wire-frame codec (new,      *)
(* calculate_checksum, as_bytes), the timeout-tolerant frame reader        *)
(* (read_frame), and main's session (commands, device-info read, streaming *)
(* loop with the point-cloud unpack loop, stop command).                   *)
(*                                                                         *)
(* Spec       the program: main from the opened port to its return.        *)
(* SpecCodec  new / as_bytes / read_frame applied to payloads drawn from   *)
(*            bounded sets reaching the ends of the 16-bit size range.     *)
(***************************************************************************)
EXTENDS Integers, Sequences, FiniteSets

VARIABLES
    pc,                 \* control location of main (or of the codec run)
    running,            \* the AtomicBool `running` (main.rs:136)
    written,            \* serial_port.write calls so far: <<[bytes, ok]>>
    stream,             \* bytes the device has put on the line, not yet read
    caller,             \* which call of read_frame is active
    payload_size,       \* read_frame's argument
    frame,              \* read_frame's local buffer `frame`
    reads,              \* outcomes of the read_exact calls of this read_frame
    rf_result,          \* what read_frame returned (kind "None": nothing yet)
    frame_3d,           \* main's frame_3d
    point_cloud_3d,     \* main's point_cloud_3d (0-based index k is [k + 1])
    iter_frame,         \* main's iter_frame
    iter_point_cloud,   \* main's iter_point_cloud
    timeouts_after_cancel, \* timed-out reads this read_frame call has issued
                        \* since `running` was cleared
    skipped,            \* bytes of the line that timed-out read_exact calls
                        \* of this read_frame call took (the next read_exact
                        \* writes its buffer from offset 0 again)
    device_info_read,   \* main's device_info_read (NoFrame: not yet bound)
    built,              \* SpecCodec: the frame new returned
    tamper              \* SpecCodec: which bit of its wire bytes is flipped

vars == <<pc, running, written, stream, caller, payload_size, frame, reads,
          rf_result, frame_3d, point_cloud_3d, iter_frame, iter_point_cloud,
          timeouts_after_cancel, skipped, device_info_read, built, tamper>>

rfVars == <<caller, payload_size, frame, reads, rf_result, skipped>>
unpackVars == <<frame_3d, point_cloud_3d, iter_frame, iter_point_cloud>>
codecVars == <<built, tamper>>

---------------------------------------------------------------------------
(* Bounds of the model.                                                    *)

\* Payloads of length 0..MaxLen over ByteVals are enumerated exhaustively.
MaxLen == 2
\* At most MaxTimeouts read_exact calls of one read_frame call time out.
MaxTimeouts == 2
\* A timed-out read_exact has consumed 0..MaxPartial bytes of the line.
MaxPartial == 1
\* Streaming payloads the device sends: StreamPayload(1..NumSeeds).
NumSeeds == 1

---------------------------------------------------------------------------
(* Integer widths and bit operations.                                      *)

U8 == 256
U16 == 65536

RECURSIVE BitXorRec(_, _)
BitXorRec(a, b) ==
    IF a = 0 THEN b
    ELSE IF b = 0 THEN a
    ELSE 2 * BitXorRec(a \div 2, b \div 2) + ((a + b) % 2)

\* XOR of two nibbles, tabulated once.
XorNibble == [a \in 0..15 |-> [b \in 0..15 |-> BitXorRec(a, b)]]

\* u8 ^ u8
BitXor(a, b) == 16 * XorNibble[a \div 16][b \div 16] + XorNibble[a % 16][b % 16]

RECURSIVE BitAnd(_, _)
BitAnd(a, b) ==
    IF a = 0 \/ b = 0 THEN 0
    ELSE 2 * BitAnd(a \div 2, b \div 2) + (IF a % 2 = 1 /\ b % 2 = 1 THEN 1 ELSE 0)

RECURSIVE BitOr(_, _)
BitOr(a, b) ==
    IF a = 0 THEN b
    ELSE IF b = 0 THEN a
    ELSE 2 * BitOr(a \div 2, b \div 2) + (IF a % 2 = 1 \/ b % 2 = 1 THEN 1 ELSE 0)

RECURSIVE Pow2(_)
Pow2(n) == IF n = 0 THEN 1 ELSE 2 * Pow2(n - 1)

\* u8 << n: bits shifted out of the 8-bit value are lost.
ShlU8(x, n) == (x * Pow2(n)) % U8
\* u16 << n
ShlU16(x, n) == (x * Pow2(n)) % U16
\* x >> n
Shr(x, n) == x \div Pow2(n)

\* The outcomes of a + b on u16: the sum when it fits; otherwise a panic
\* (overflow checks on, the debug profile: -1) or the wrapped sum (overflow
\* checks off, the release profile).
AddU16(a, b) == IF a + b < U16 THEN {a + b} ELSE {-1, (a + b) % U16}

\* n as k little-endian bytes.
RECURSIVE LeBytes(_, _)
LeBytes(n, k) == IF k = 0 THEN <<>> ELSE <<n % U8>> \o LeBytes(n \div U8, k - 1)

Zeros(n) == [k \in 1..n |-> 0]

---------------------------------------------------------------------------
(* Frame, new, calculate_checksum, as_bytes.                               *)

Header == <<90, 119, 255>>     \* 0x5a, 0x77, 0xff

NoFrame == [header |-> <<>>, size |-> 0, payload |-> <<>>, checksum |-> 0]

\* bincode::serialize(&Frame): the [u8; 3] header as 3 bytes, size as a u16
\* little-endian, the Vec<u8> as its length in a u64 little-endian followed by
\* its bytes, and the checksum byte.
Serialize(f) ==
    f.header \o LeBytes(f.size, 2) \o LeBytes(Len(f.payload), 8)
             \o f.payload \o <<f.checksum>>

\* Vec::drain(from..to): the bytes at 0-based from..to-1 removed.
Drain(bytes, from, to) == SubSeq(bytes, 1, from) \o SubSeq(bytes, to + 1, Len(bytes))

\* for byte in s[lo..=hi] { sum ^= byte }, sum starting at 0.  XOR is
\* associative, so the range is folded by halves: the evaluation depth stays
\* logarithmic in the length.
RECURSIVE XorFold(_, _, _)
XorFold(s, lo, hi) ==
    IF lo > hi THEN 0
    ELSE IF lo = hi THEN s[lo]
    ELSE LET mid == (lo + hi) \div 2
         IN  BitXor(XorFold(s, lo, mid), XorFold(s, mid + 1, hi))

calculate_checksum(f) ==
    LET bytes   == Serialize(f)
        drained == IF f.size <= 7 THEN Drain(bytes, 5, 5 + 8)
                                  ELSE Drain(bytes, 5, 5 + 2)
    IN  \* &bytes[3..bytes.len()-1]
        XorFold(drained, 4, Len(drained) - 1)

new(payload) ==
    LET f0 == [header   |-> Header,
               size     |-> Len(payload) % U16,      \* payload.len() as u16
               payload  |-> payload,
               checksum |-> 0]
    IN  [f0 EXCEPT !.checksum = calculate_checksum(f0)]

as_bytes(f) == Drain(Serialize(f), 5, 13)

---------------------------------------------------------------------------
(* The device: what it may put on the line.                                *)

\* Byte values payloads and corrupted bytes are drawn from.
ByteVals == {0, 1, 90, 255}

SetByte(w, pos, v) == [w EXCEPT ![pos] = v]

\* w with bit `bit` of the byte at pos flipped.
FlipBit(w, pos, bit) == [w EXCEPT ![pos] = BitXor(w[pos], Pow2(bit))]

\* w with its last byte set to the XOR of its size field and payload bytes.
FixChecksum(w) == SetByte(w, Len(w), XorFold(w, 4, Len(w) - 1))

\* The payload of n bytes a, a + d, a + 2d, ... (mod 256).
Ramp(n, a, d) == [k \in 1..n |-> (a + (k - 1) * d) % U8]

\* const point_cloud_3d_size : u16 = 160 * 60
point_cloud_3d_size == 160 * 60

\* ((point_cloud_3d_size*3)/2)+1, the payload size of a streamed frame.
StreamPayloadSize == ((point_cloud_3d_size * 3) \div 2) + 1

\* The payload size of the device-info reply: read_frame(&mut serial_port, 7).
DevInfoPayloadSize == 7

DevInfoPayloads == {Ramp(DevInfoPayloadSize, a, 1) : a \in {1, 200}}

\* What the device may answer to the device-info request: nothing, a valid
\* frame, a valid frame with one byte replaced, with a header byte and a
\* size or checksum byte replaced, or with a size byte replaced and the
\* checksum made consistent with it.
DevInfoReplies ==
    LET valid == {as_bytes(new(p)) : p \in DevInfoPayloads}
    IN  {<<>>}
        \cup valid
        \cup {SetByte(w, pos, v) : w \in valid, pos \in 1..13, v \in ByteVals}
        \cup {SetByte(SetByte(w, h, v1), q, v2) :
                 w \in valid, h \in 1..3, q \in {4, 5, 13},
                 v1 \in ByteVals, v2 \in ByteVals}
        \cup {FixChecksum(SetByte(w, 4, v)) : w \in valid, v \in ByteVals}

\* The payload of a streamed frame: the bytes 0x12 0x34 0x56, then bytes
\* that run through all values.
StreamPayload(seed) ==
    [k \in 1..StreamPayloadSize |->
        IF k <= 3 THEN <<18, 52, 86>>[k] ELSE (seed * 11 + k * 37) % U8]

\* What the device may stream: valid frames, and the first one with a
\* payload byte corrupted.
StreamReplies ==
    LET valid == {as_bytes(new(StreamPayload(seed))) : seed \in 1..NumSeeds}
        w1    == as_bytes(new(StreamPayload(1)))
    IN  valid \cup {SetByte(w1, 9, 0)}

---------------------------------------------------------------------------
(* read_frame.                                                             *)

Result(kind, f) == [kind |-> kind, frame |-> f]

NoResult == Result("None", NoFrame)

\* u16 from its two little-endian bytes: bincode::deserialize(&frame[3..5]).
DeserializeU16(buf) == buf[4] + U8 * buf[5]

\* ValidateWith with the size compared before the header.
ValidateWith_SizeFirst(buf, ps, end) ==
    IF end = -1 \/ 5 > end \/ end > Len(buf)
    THEN Result("Panic", NoFrame)
    ELSE LET frame_obj == new(SubSeq(buf, 6, end))
         IN  IF DeserializeU16(buf) # ps
             THEN Result("BadSize", NoFrame)
             ELSE IF frame_obj.header # SubSeq(buf, 1, 3)
             THEN Result("BadMagic", NoFrame)
             ELSE IF frame_obj.checksum # buf[Len(buf)]
             THEN Result("BadChecksum", NoFrame)
             ELSE Result("Ok", frame_obj)

\* ValidateWith without the comparison of the size field.
ValidateWith_NoSizeCheck(buf, ps, end) ==
    IF end = -1 \/ 5 > end \/ end > Len(buf)
    THEN Result("Panic", NoFrame)
    ELSE LET frame_obj == new(SubSeq(buf, 6, end))
         IN  IF frame_obj.header # SubSeq(buf, 1, 3)
             THEN Result("BadMagic", NoFrame)
             ELSE IF frame_obj.checksum # buf[Len(buf)]
             THEN Result("BadChecksum", NoFrame)
             ELSE Result("Ok", frame_obj)

\* ValidateWith without the comparison of the checksum.
ValidateWith_NoChecksum(buf, ps, end) ==
    IF end = -1 \/ 5 > end \/ end > Len(buf)
    THEN Result("Panic", NoFrame)
    ELSE LET frame_obj == new(SubSeq(buf, 6, end))
         IN  IF frame_obj.header # SubSeq(buf, 1, 3)
             THEN Result("BadMagic", NoFrame)
             ELSE IF DeserializeU16(buf) # ps
             THEN Result("BadSize", NoFrame)
             ELSE Result("Ok", frame_obj)

\* Lines 93-114, with `end` the value of (payload_size + 5): the slice
\* frame[5..end] panics when the addition panicked (-1), when 5 > end or when
\* end > frame.len(); then the header, the size and the checksum are compared
\* in this order, each mismatch returning Err(()).
ValidateWith(buf, ps, end) ==
    IF end = -1 \/ 5 > end \/ end > Len(buf)
    THEN Result("Panic", NoFrame)
    ELSE LET frame_obj == new(SubSeq(buf, 6, end))
         IN  IF frame_obj.header # SubSeq(buf, 1, 3)
             THEN Result("BadMagic", NoFrame)
             ELSE IF DeserializeU16(buf) # ps
             THEN Result("BadSize", NoFrame)
             ELSE IF frame_obj.checksum # buf[Len(buf)]
             THEN Result("BadChecksum", NoFrame)
             ELSE Result("Ok", frame_obj)

\* What the Ok(_) arm of read_frame can return for a filled buffer.
Validate(buf, ps) == { ValidateWith(buf, ps, end) : end \in AddU16(ps, 5) }

\* RetryOn with no error retried.
RetryOn_Never(kind) == FALSE

\* RetryOn with every error retried.
RetryOn_Always(kind) == TRUE

\* The Err(msg) arm, lines 116-128: a timeout is retried, any other error
\* is returned.
RetryOn(kind) == kind = "TimedOut"

\* Where read_frame returns to.
ReturnSite(c) ==
    CASE c = "devinfo" -> "devinfo_ret"
      [] c = "stream"  -> "stream_ret"
      [] c = "codec"   -> "codec_ret"

\* The call: line 84 allocates vec![0u8; (payload_size + 6) as usize].
RfCall(c, ps) ==
    /\ caller' = c
    /\ payload_size' = ps
    /\ reads' = <<>>
    /\ skipped' = 0
    /\ \E n \in AddU16(ps, 6) :
          IF n = -1
          THEN /\ frame' = <<>>
               /\ rf_result' = Result("Panic", NoFrame)
               /\ pc' = ReturnSite(c)
          ELSE /\ frame' = Zeros(n)
               /\ rf_result' = NoResult
               /\ pc' = "rf_loop"

\* RfReadFull with a frame that fails validation read again.
RfReadFull_RetryAfterDecodeError ==
    /\ pc = "rf_loop"
    /\ Len(stream) >= Len(frame)
    /\ frame' = SubSeq(stream, 1, Len(frame))
    /\ stream' = SubSeq(stream, Len(frame) + 1, Len(stream))
    /\ \E res \in Validate(SubSeq(stream, 1, Len(frame)), payload_size) :
          IF res.kind = "Ok"
          THEN rf_result' = res /\ pc' = ReturnSite(caller)
          ELSE rf_result' = NoResult /\ pc' = "rf_loop"
    /\ reads' = Append(reads, "Ok")
    /\ UNCHANGED skipped
    /\ UNCHANGED <<running, written, caller, payload_size, timeouts_after_cancel,
                 device_info_read>>
    /\ UNCHANGED unpackVars
    /\ UNCHANGED codecVars

\* read_exact fills the whole buffer from the line: Ok(_), then lines
\* 93-114.  (read_exact on an empty buffer returns Ok at once.)
RfReadFull ==
    /\ pc = "rf_loop"
    /\ Len(stream) >= Len(frame)
    /\ frame' = SubSeq(stream, 1, Len(frame))
    /\ stream' = SubSeq(stream, Len(frame) + 1, Len(stream))
    /\ \E res \in Validate(SubSeq(stream, 1, Len(frame)), payload_size) :
          rf_result' = res
    /\ reads' = Append(reads, "Ok")
    /\ pc' = ReturnSite(caller)
    /\ UNCHANGED skipped
    /\ UNCHANGED <<running, written, caller, payload_size, timeouts_after_cancel,
                 device_info_read>>
    /\ UNCHANGED unpackVars
    /\ UNCHANGED codecVars

\* read_exact fails with `kind` after c bytes of the line went into the
\* buffer: a timeout loops (continue), any other error returns Err(()).
RfReadErr(kind) ==
    /\ pc = "rf_loop"
    /\ Len(frame) > 0
    /\ kind = "TimedOut" =>
          Cardinality({k \in 1..Len(reads) : reads[k] = "TimedOut"}) < MaxTimeouts
    /\ \E c \in 0..MaxPartial :
          /\ c < Len(frame)
          /\ c <= Len(stream)
          /\ frame' = SubSeq(stream, 1, c) \o SubSeq(frame, c + 1, Len(frame))
          /\ stream' = SubSeq(stream, c + 1, Len(stream))
          /\ skipped' = skipped + c
    /\ reads' = Append(reads, kind)
    /\ IF RetryOn(kind)
       THEN /\ pc' = "rf_loop"
            /\ rf_result' = NoResult
       ELSE /\ pc' = ReturnSite(caller)
            /\ rf_result' = Result("ReadError", NoFrame)
    /\ timeouts_after_cancel' =
          IF kind = "TimedOut" /\ ~running
          THEN timeouts_after_cancel + 1 ELSE timeouts_after_cancel
    /\ UNCHANGED <<running, written, caller, payload_size, device_info_read>>
    /\ UNCHANGED unpackVars
    /\ UNCHANGED codecVars

RfTimeout == RfReadErr("TimedOut")
RfError == RfReadErr("Other")

---------------------------------------------------------------------------
(* main.                                                                   *)

SetBaud         == <<18, 85>>       \* vec![0x12, 0x55]
QueryDeviceInfo == <<16, 0>>        \* vec![0x10, 0x00]
StartStream     == <<8, 0>>         \* vec![0x08, 0x00]
StopStream      == <<2, 0, 0>>      \* vec![0x02, 0x00, 0x00]

\* serial_port.write(&new(payload).as_bytes().unwrap()), succeeding or not.
Write(payload, ok) ==
    written' = Append(written, [bytes |-> as_bytes(new(payload)), ok |-> ok])

Init ==
    /\ pc = "open"
    /\ running = TRUE
    /\ written = <<>>
    /\ stream = <<>>
    /\ caller = "none"
    /\ payload_size = 0
    /\ frame = <<>>
    /\ reads = <<>>
    /\ rf_result = NoResult
    /\ frame_3d = NoFrame
    /\ point_cloud_3d = <<>>
    /\ iter_frame = 0
    /\ iter_point_cloud = 0
    /\ timeouts_after_cancel = 0
    /\ skipped = 0
    /\ device_info_read = NoFrame
    /\ built = NoFrame
    /\ tamper = [kind |-> "none", pos |-> 0, bit |-> 0]

\* The ctrlc handler: r.store(false).
CtrlC ==
    /\ pc \notin {"done", "panicked"}
    /\ running
    /\ running' = FALSE
    /\ UNCHANGED <<pc, written, stream, timeouts_after_cancel,
                 device_info_read>>
    /\ UNCHANGED rfVars
    /\ UNCHANGED unpackVars
    /\ UNCHANGED codecVars

\* open_native(): Err returns from main.
Open ==
    /\ pc = "open"
    /\ \E ok \in BOOLEAN : pc' = IF ok THEN "set_baud" ELSE "done"
    /\ UNCHANGED <<running, written, stream, timeouts_after_cancel,
                 device_info_read>>
    /\ UNCHANGED rfVars
    /\ UNCHANGED unpackVars
    /\ UNCHANGED codecVars

\* WriteBaud with a failed write tried again.
WriteBaud_Retry ==
    /\ pc = "set_baud"
    /\ \E ok \in BOOLEAN :
          /\ Write(SetBaud, ok)
          /\ pc' = IF ok THEN "query_info" ELSE "set_baud"
    /\ UNCHANGED <<running, stream, timeouts_after_cancel,
                 device_info_read>>
    /\ UNCHANGED rfVars
    /\ UNCHANGED unpackVars
    /\ UNCHANGED codecVars

\* Lines 157-162.
WriteBaud ==
    /\ pc = "set_baud"
    /\ \E ok \in BOOLEAN :
          /\ Write(SetBaud, ok)
          /\ pc' = IF ok THEN "query_info" ELSE "done"
    /\ UNCHANGED <<running, stream, timeouts_after_cancel,
                 device_info_read>>
    /\ UNCHANGED rfVars
    /\ UNCHANGED unpackVars
    /\ UNCHANGED codecVars

\* Lines 164-169.
WriteDeviceInfo ==
    /\ pc = "query_info"
    /\ \E ok \in BOOLEAN :
          /\ Write(QueryDeviceInfo, ok)
          /\ pc' = IF ok THEN "read_info" ELSE "done"
    /\ UNCHANGED <<running, stream, timeouts_after_cancel,
                 device_info_read>>
    /\ UNCHANGED rfVars
    /\ UNCHANGED unpackVars
    /\ UNCHANGED codecVars

\* Line 171, the call: read_frame(&mut serial_port, 7).  The device's
\* answer, if any, is on its way.
CallReadDeviceInfo ==
    /\ pc = "read_info"
    /\ \E r \in DevInfoReplies : stream' = r
    /\ RfCall("devinfo", DevInfoPayloadSize)
    /\ UNCHANGED <<running, written, timeouts_after_cancel,
                 device_info_read>>
    /\ UNCHANGED unpackVars
    /\ UNCHANGED codecVars

\* DeviceInfoRet with the Err(()) of read_frame ignored.
DeviceInfoRet_IgnoreError ==
    /\ pc = "devinfo_ret"
    /\ pc' = "flush"
    /\ device_info_read' =
          IF rf_result.kind = "Ok" THEN rf_result.frame ELSE device_info_read
    /\ caller' = "none"
    /\ frame' = <<>>
    /\ reads' = <<>>
    /\ rf_result' = NoResult
    /\ skipped' = 0
    /\ timeouts_after_cancel' = 0
    /\ UNCHANGED <<running, written, stream, payload_size>>
    /\ UNCHANGED unpackVars
    /\ UNCHANGED codecVars

\* Line 171, the return: .unwrap() panics on Err(()); line 172 prints the
\* frame.
DeviceInfoRet ==
    /\ pc = "devinfo_ret"
    /\ IF rf_result.kind = "Ok"
       THEN /\ pc' = "flush"
            /\ device_info_read' = rf_result.frame
       ELSE /\ pc' = "panicked"
            /\ UNCHANGED device_info_read
    /\ caller' = "none"
    /\ frame' = <<>>
    /\ reads' = <<>>
    /\ rf_result' = NoResult
    /\ skipped' = 0
    /\ timeouts_after_cancel' = 0
    /\ UNCHANGED <<running, written, stream, payload_size>>
    /\ UNCHANGED unpackVars
    /\ UNCHANGED codecVars

\* Line 174: serial_port.flush().unwrap().
Flush ==
    /\ pc = "flush"
    /\ \E ok \in BOOLEAN : pc' = IF ok THEN "start" ELSE "panicked"
    /\ UNCHANGED <<running, written, stream, timeouts_after_cancel,
                 device_info_read>>
    /\ UNCHANGED rfVars
    /\ UNCHANGED unpackVars
    /\ UNCHANGED codecVars

\* Lines 178-183.
WriteStart ==
    /\ pc = "start"
    /\ \E ok \in BOOLEAN :
          /\ Write(StartStream, ok)
          /\ pc' = IF ok THEN "loop" ELSE "done"
    /\ UNCHANGED <<running, stream, timeouts_after_cancel,
                 device_info_read>>
    /\ UNCHANGED rfVars
    /\ UNCHANGED unpackVars
    /\ UNCHANGED codecVars

\* Line 186 with `running` set, and the call of line 189.
LoopEnter ==
    /\ pc = "loop"
    /\ running
    /\ RfCall("stream", StreamPayloadSize)
    /\ UNCHANGED <<running, written, stream, timeouts_after_cancel,
                 device_info_read>>
    /\ UNCHANGED unpackVars
    /\ UNCHANGED codecVars

\* Line 186 with `running` cleared: the loop ends.
LoopExit ==
    /\ pc = "loop"
    /\ ~running
    /\ pc' = "stop"
    /\ UNCHANGED <<running, written, stream, timeouts_after_cancel,
                 device_info_read>>
    /\ UNCHANGED rfVars
    /\ UNCHANGED unpackVars
    /\ UNCHANGED codecVars

\* The device streams: one more frame reaches the line the reader waits on.
DeviceSend ==
    /\ pc = "rf_loop"
    /\ caller = "stream"
    /\ Len(stream) < Len(frame)
    /\ \E r \in StreamReplies : stream' = stream \o r
    /\ UNCHANGED <<pc, running, written, timeouts_after_cancel,
                 device_info_read>>
    /\ UNCHANGED rfVars
    /\ UNCHANGED unpackVars
    /\ UNCHANGED codecVars

\* Lines 189-196: the match on read_frame's result; Err breaks out of the
\* loop, Ok starts the unpack loop on a zeroed point cloud.
StreamRet ==
    /\ pc = "stream_ret"
    /\ IF rf_result.kind = "Ok"
       THEN /\ pc' = "unpack"
            /\ frame_3d' = rf_result.frame
            /\ point_cloud_3d' = Zeros(point_cloud_3d_size)
            /\ iter_frame' = 0
            /\ iter_point_cloud' = 0
       ELSE /\ pc' = IF rf_result.kind = "Panic" THEN "panicked" ELSE "stop"
            /\ UNCHANGED unpackVars
    /\ caller' = "none"
    /\ frame' = <<>>
    /\ reads' = <<>>
    /\ rf_result' = NoResult
    /\ skipped' = 0
    /\ timeouts_after_cancel' = 0
    /\ UNCHANGED <<running, written, stream, payload_size, device_info_read>>
    /\ UNCHANGED codecVars

\* PackFirst without the mask of `second`.
PackFirst_NoMask(first, second) == BitOr(first, ShlU16(second, 8))

\* Lines 203-204: first as u16 | ((second & 0xf) as u16) << 8
PackFirst(first, second) == BitOr(first, ShlU16(BitAnd(second, 15), 8))

\* Lines 207-208: ((second & 0xf) >> 4) as u16 | (third << 4) as u16, the
\* shift of `third` being done on the u8.
PackSecond(second, third) == BitOr(Shr(BitAnd(second, 15), 4), ShlU8(third, 4))

\* Line 197.
UnpackGuard ==
    /\ iter_point_cloud < point_cloud_3d_size
    /\ iter_frame < Len(frame_3d.payload) - 3

\* Lines 199-208, one pass of the loop body.  An index past the end of the
\* payload or of the point cloud panics.
UnpackStep ==
    /\ pc = "unpack"
    /\ UnpackGuard
    /\ IF iter_frame + 3 > Len(frame_3d.payload)
          \/ iter_point_cloud + 1 >= point_cloud_3d_size
       THEN /\ pc' = "panicked"
            /\ UNCHANGED unpackVars
       ELSE LET first  == frame_3d.payload[iter_frame + 1]
                second == frame_3d.payload[iter_frame + 2]
                third  == frame_3d.payload[iter_frame + 3]
            IN  /\ point_cloud_3d' =
                      [point_cloud_3d EXCEPT
                          ![iter_point_cloud + 1] = PackFirst(first, second),
                          ![iter_point_cloud + 2] = PackSecond(second, third)]
                /\ iter_frame' = iter_frame + 3
                /\ iter_point_cloud' = iter_point_cloud + 1
                /\ pc' = "unpack"
                /\ UNCHANGED frame_3d
    /\ UNCHANGED <<running, written, stream, timeouts_after_cancel,
                 device_info_read>>
    /\ UNCHANGED rfVars
    /\ UNCHANGED codecVars

\* Line 197 false: the loop ends; line 210 sleeps.
UnpackExit ==
    /\ pc = "unpack"
    /\ ~UnpackGuard
    /\ pc' = "print"
    /\ UNCHANGED <<running, written, stream, timeouts_after_cancel,
                 device_info_read>>
    /\ UNCHANGED rfVars
    /\ UNCHANGED unpackVars
    /\ UNCHANGED codecVars

\* Line 211 prints the point cloud; frame_3d and point_cloud_3d go out of
\* scope at the end of the loop body.
PrintCloud ==
    /\ pc = "print"
    /\ pc' = "loop"
    /\ frame_3d' = NoFrame
    /\ point_cloud_3d' = <<>>
    /\ iter_frame' = 0
    /\ iter_point_cloud' = 0
    /\ UNCHANGED <<running, written, stream, timeouts_after_cancel,
                 device_info_read>>
    /\ UNCHANGED rfVars
    /\ UNCHANGED codecVars

\* WriteStop with a failed write tried again.
WriteStop_Retry ==
    /\ pc = "stop"
    /\ \E ok \in BOOLEAN :
          /\ Write(StopStream, ok)
          /\ pc' = IF ok THEN "done" ELSE "stop"
    /\ UNCHANGED <<running, stream, timeouts_after_cancel,
                 device_info_read>>
    /\ UNCHANGED rfVars
    /\ UNCHANGED unpackVars
    /\ UNCHANGED codecVars

\* Lines 214-219.
WriteStop ==
    /\ pc = "stop"
    /\ \E ok \in BOOLEAN : Write(StopStream, ok)
    /\ pc' = "done"
    /\ UNCHANGED <<running, stream, timeouts_after_cancel,
                 device_info_read>>
    /\ UNCHANGED rfVars
    /\ UNCHANGED unpackVars
    /\ UNCHANGED codecVars

Next ==
    \/ CtrlC
    \/ Open
    \/ WriteBaud
    \/ WriteDeviceInfo
    \/ CallReadDeviceInfo
    \/ DeviceInfoRet
    \/ Flush
    \/ WriteStart
    \/ LoopEnter
    \/ LoopExit
    \/ DeviceSend
    \/ RfReadFull
    \/ RfTimeout
    \/ RfError
    \/ StreamRet
    \/ UnpackStep
    \/ UnpackExit
    \/ PrintCloud
    \/ WriteStop

Spec == Init /\ [][Next]_vars

---------------------------------------------------------------------------
(* SpecCodec: new, as_bytes and read_frame applied to chosen payloads.     *)

RECURSIVE SeqsOfLen(_, _)
SeqsOfLen(S, n) ==
    IF n = 0 THEN {<<>>}
    ELSE {Append(q, b) : q \in SeqsOfLen(S, n - 1), b \in S}

\* Lengths around the branch of calculate_checksum (7 | 8), at the end of
\* the range where payload_size + 6 fits in a u16 (65529 | 65530), at the end
\* of the u16 range (65535 | 65536) and past it.
EdgeLens == {7, 8, 9, 65529, 65530, 65535, 65536, 65544}

CodecPayloads ==
    UNION {SeqsOfLen(ByteVals, n) : n \in 0..MaxLen}
    \cup {<<18, 85>>, <<16, 0>>, <<8, 0>>, <<2, 0, 0>>}
    \cup {Ramp(n, 3, 37) : n \in EdgeLens}

NoTamper == [kind |-> "none", pos |-> 0, bit |-> 0]

\* The field of a wire frame of n bytes that 1-based position pos lies in.
Region(pos, n) ==
    IF pos <= 3 THEN "header"
    ELSE IF pos <= 5 THEN "size"
    ELSE IF pos < n THEN "payload"
    ELSE "checksum"

\* The bits <<position, bit>> of a wire frame of n bytes that are flipped:
\* every bit of a short frame; of a long one a bit of each size byte, of the
\* first and of the last payload byte.
Flips(n) ==
    IF n <= 16 THEN (1..n) \X (0..7)
    ELSE {<<4, 0>>, <<5, 7>>, <<6, 0>>, <<n - 1, 7>>}

\* A frame has been built: built = new(p) for a payload p of CodecPayloads.
InitCodec ==
    /\ pc = "encoded"
    /\ \E p \in CodecPayloads : built = new(p)
    /\ tamper = NoTamper
    /\ running = TRUE
    /\ written = <<>>
    /\ stream = <<>>
    /\ caller = "codec"
    /\ payload_size = 0
    /\ frame = <<>>
    /\ reads = <<>>
    /\ rf_result = NoResult
    /\ frame_3d = NoFrame
    /\ point_cloud_3d = <<>>
    /\ iter_frame = 0
    /\ iter_point_cloud = 0
    /\ timeouts_after_cancel = 0
    /\ skipped = 0
    /\ device_info_read = NoFrame

\* The bytes that reach the line: w, with the bit t names flipped.
Tampered(w, t) == IF t.kind = "none" THEN w ELSE FlipBit(w, t.pos, t.bit)

\* One bit of the frame's wire bytes will be flipped on the line.
Flip ==
    /\ pc = "encoded"
    /\ Len(built.payload) < U16
    /\ \E fl \in Flips(Len(as_bytes(built))) :
          tamper' = [kind |-> Region(fl[1], Len(as_bytes(built))),
                     pos |-> fl[1], bit |-> fl[2]]
    /\ pc' = "flipped"
    /\ UNCHANGED <<built, running, written, stream, timeouts_after_cancel,
                 device_info_read>>
    /\ UNCHANGED rfVars
    /\ UNCHANGED unpackVars

\* built.as_bytes() is put on the line and read_frame is called with the
\* payload's length, when that is a u16.
CodecRead ==
    /\ pc \in {"encoded", "flipped"}
    /\ Len(built.payload) < U16
    /\ stream' = Tampered(as_bytes(built), tamper)
    /\ RfCall("codec", Len(built.payload))
    /\ UNCHANGED <<running, written, timeouts_after_cancel,
                 device_info_read>>
    /\ UNCHANGED unpackVars
    /\ UNCHANGED codecVars

NextCodec ==
    \/ Flip
    \/ CodecRead
    \/ RfReadFull
    \/ RfTimeout
    \/ RfError

SpecCodec == InitCodec /\ [][NextCodec]_vars

---------------------------------------------------------------------------
(* Claims about the codec, checked under SpecCodec.                        *)

\* The last read_exact of the read_frame call filled the buffer, so the
\* decode step (lines 93-114) ran.
DecodeRan == reads # <<>> /\ reads[Len(reads)] = "Ok"

\* XOR of the two little-endian size bytes followed by the payload bytes.
XorOfSizeAndPayload(f) ==
    XorFold(LeBytes(f.size, 2) \o f.payload, 1, 2 + Len(f.payload))

\* C1 (as claimed): round trip.  For every payload p of at most 65535 bytes,
\* read_frame fed as_bytes(new(p)) with payload_size = length(p) returns Ok
\* with a frame whose payload is p.
C1_RoundTrip ==
    (/\ pc = "codec_ret"
     /\ tamper.kind = "none"
     /\ Len(built.payload) <= 65535
     /\ rf_result.kind # "ReadError")
    => (rf_result.kind = "Ok" /\ rf_result.frame.payload = built.payload)

\* C2 (as claimed): the checksum of every frame built by new(payload) is the
\* XOR of the two little-endian size bytes and of all payload bytes, and of
\* nothing else.
C2_ChecksumIsXorOfSizeAndPayload ==
    pc = "encoded" => built.checksum = XorOfSizeAndPayload(built)

\* C3 (as claimed): as_bytes gives header ++ size (2 bytes, little-endian)
\* ++ payload ++ checksum, size + 6 bytes in all.
C3_WireLayout ==
    pc = "encoded" =>
        /\ as_bytes(built) = Header \o LeBytes(built.size, 2) \o built.payload
                                    \o <<built.checksum>>
        /\ Len(as_bytes(built)) = built.size + 6

\* C4 (as claimed): a single bit flipped in the size field or in the payload
\* of a valid wire frame makes the decode step fail with BadChecksum.
C4_FlipGivesBadChecksum ==
    (/\ pc = "codec_ret"
     /\ tamper.kind \in {"size", "payload"}
     /\ DecodeRan)
    => rf_result.kind = "BadChecksum"

\* C4 (amended): a single bit flipped in the size field or in the payload of
\* a valid wire frame never decodes to Ok; a flipped payload bit gives
\* BadChecksum and a flipped size bit gives BadSize (the size is compared
\* before the checksum); when payload_size + 6 does not fit in 16 bits the
\* decode step panics instead.
C4_FlipIsDetected ==
    (/\ pc = "codec_ret"
     /\ tamper.kind \in {"size", "payload"}
     /\ DecodeRan)
    => /\ rf_result.kind # "Ok"
       /\ payload_size + 6 < U16 =>
             rf_result.kind =
                 (IF tamper.kind = "size" THEN "BadSize" ELSE "BadChecksum")
       /\ payload_size + 6 >= U16 => rf_result.kind = "Panic"

\* C4 witness: a frame of the size > 7 branch with a flipped payload bit was
\* decoded and rejected as BadChecksum.
C4_Witness ==
    /\ pc = "codec_ret"
    /\ tamper.kind = "payload"
    /\ payload_size = 9
    /\ DecodeRan
    /\ rf_result.kind = "BadChecksum"

\* C13 (as claimed): new(payload) gives a frame with size = length(payload)
\* when the length fits in 16 bits, and gives no frame for a longer payload:
\* no frame with size # length(payload) is ever constructed.
C13_SizeIsPayloadLength ==
    built # NoFrame =>
        /\ built.size = Len(built.payload)
        /\ Len(built.payload) <= 65535

\* C20 (as claimed): for every payload_size of the 16-bit range read_frame
\* allocates a buffer of exactly payload_size + 6 bytes and takes the payload
\* from offsets 5 .. payload_size + 5, with no 16-bit overflow: the call does
\* not panic, and a decoded frame holds the payload_size bytes from offset 5.
C20_BufferIsPayloadPlusSix ==
    (caller = "codec" /\ pc \in {"rf_loop", "codec_ret"}) =>
        /\ rf_result.kind # "Panic"
        /\ Len(frame) = payload_size + 6
        /\ rf_result.kind = "Ok" =>
              rf_result.frame.payload = SubSeq(frame, 6, payload_size + 5)

---------------------------------------------------------------------------
(* Claims about read_frame and main, checked under Spec.                   *)

\* read_frame has returned and main has not yet taken the result.
Returned == pc \in {"devinfo_ret", "stream_ret"}

\* buf is a well-formed wire frame carrying ps payload bytes: header, size
\* field, payload, and the XOR of size field and payload as its last byte.
IsValidWire(buf, ps) ==
    /\ Len(buf) = ps + 6
    /\ SubSeq(buf, 1, 3) = Header
    /\ DeserializeU16(buf) = ps
    /\ buf[Len(buf)] = XorFold(buf, 4, Len(buf) - 1)

\* C5: magic enforcement.  When any of the first three received bytes
\* differs from 0x5A 0x77 0xFF, read_frame fails with BadMagic, whatever the
\* size field and the checksum byte are.
C5_MagicEnforced ==
    (Returned /\ DecodeRan /\ SubSeq(frame, 1, 3) # Header)
    => rf_result.kind = "BadMagic"

\* C5 witness: a frame whose header and size field are both wrong was
\* rejected as BadMagic.
C5_Witness ==
    /\ Returned
    /\ DecodeRan
    /\ SubSeq(frame, 1, 3) # Header
    /\ DeserializeU16(frame) # payload_size
    /\ rf_result.kind = "BadMagic"

\* C6: size enforcement.  A received frame with the right header whose size
\* field differs from payload_size fails with BadSize (it is not Ok), also
\* when its checksum byte fits its own size field and payload.
C6_SizeEnforced ==
    (/\ Returned
     /\ DecodeRan
     /\ SubSeq(frame, 1, 3) = Header
     /\ DeserializeU16(frame) # payload_size)
    => rf_result.kind = "BadSize"

\* C6 witness: a frame with the right header, another size and a checksum
\* byte that fits its own size field and payload was rejected as BadSize.
C6_Witness ==
    /\ Returned
    /\ DecodeRan
    /\ SubSeq(frame, 1, 3) = Header
    /\ DeserializeU16(frame) # payload_size
    /\ frame[Len(frame)] = XorFold(frame, 4, Len(frame) - 1)
    /\ rf_result.kind = "BadSize"

\* C9: retry on timeout.  When the read attempts time out k times and then
\* deliver a full valid frame, read_frame returns Ok with that frame decoded
\* after exactly k + 1 attempts; and read_frame never returns an error from
\* an attempt that timed out.
C9_RetryOnTimeout ==
    Returned =>
        /\ (DecodeRan /\ IsValidWire(frame, payload_size)) =>
              /\ rf_result.kind = "Ok"
              /\ rf_result.frame.header = Header
              /\ rf_result.frame.size = payload_size
              /\ rf_result.frame.payload = SubSeq(frame, 6, Len(frame) - 1)
              /\ rf_result.frame.checksum = frame[Len(frame)]
              /\ \A k \in 1..(Len(reads) - 1) : reads[k] = "TimedOut"
        /\ rf_result.kind # "Ok" => reads[Len(reads)] # "TimedOut"

\* C9 witness: two timeouts, then a valid frame, returned as Ok from the
\* third attempt.
C9_Witness ==
    /\ Returned
    /\ reads = <<"TimedOut", "TimedOut", "Ok">>
    /\ IsValidWire(frame, payload_size)
    /\ rf_result.kind = "Ok"

\* The packing rule of the claim for a triplet (b0, b1, b2).
RuleFirst(b0, b1) == BitOr(b0, ShlU16(BitAnd(b1, 15), 8))
RuleSecond(b1, b2) == BitOr(Shr(BitAnd(b1, 240), 4), ShlU16(b2, 4))

\* C7 (as claimed): packing rule.  The two samples the loop body produces
\* from a triplet (b0, b1, b2) are b0 | ((b1 & 0x0F) << 8) and
\* ((b1 & 0xF0) >> 4) | (b2 << 4) as 16-bit values.
C7_PackingRule ==
    (pc = "unpack" /\ iter_frame >= 3) =>
        LET b0 == frame_3d.payload[iter_frame - 2]
            b1 == frame_3d.payload[iter_frame - 1]
            b2 == frame_3d.payload[iter_frame]
        IN  /\ point_cloud_3d[iter_point_cloud] = RuleFirst(b0, b1)
            /\ point_cloud_3d[iter_point_cloud + 1] = RuleSecond(b1, b2)

\* C8 (as claimed): exact fill.  Each pass advances the byte index by 3 and
\* the sample index by 2, and when the loop ends all 9600 samples have been
\* produced.
C8_ExactFill ==
    /\ pc \in {"unpack", "print"} => 2 * iter_frame = 3 * iter_point_cloud
    /\ pc = "print" => iter_point_cloud = point_cloud_3d_size

\* C10 (as claimed): cancellation latency.  Once `running` is cleared during
\* the streaming loop, at most one further read attempt times out before the
\* loop stops, and a session that returns after streaming has written
\* StopStream.
C10_CancelLatency ==
    /\ caller = "stream" => timeouts_after_cancel <= 1
    /\ (pc = "done" /\ Len(written) >= 3 /\ written[3].ok) =>
          /\ Len(written) = 4
          /\ written[4].bytes = as_bytes(new(StopStream))

\* The wire bytes of the four commands, in the order main writes them.
Commands ==
    <<as_bytes(new(<<18, 85>>)), as_bytes(new(<<16, 0>>)),
      as_bytes(new(<<8, 0>>)), as_bytes(new(<<2, 0, 0>>))>>

\* main has terminated: it returned or it panicked.
Terminated == pc \in {"done", "panicked"}

\* The last write main attempted was the StopStream command.
StopAttempted ==
    written # <<>> /\ written[Len(written)].bytes = Commands[4]

\* C11 (as claimed): on every fatal error the session attempts StopStream
\* before it terminates: after a failed write of SetBaud, QueryDeviceInfo or
\* StartStream, after a failed device-info read (main terminated with
\* device_info_read never bound and both requests written), and after
\* streaming began, the last write of a terminated session is StopStream.
C11_StopOnFatalError ==
    Terminated =>
        /\ (\E k \in 1..Len(written) : k <= 3 /\ ~written[k].ok)
              => StopAttempted
        /\ (pc = "panicked" /\ Len(written) = 2 /\ device_info_read = NoFrame)
              => StopAttempted
        /\ (Len(written) >= 3 /\ written[3].ok) => StopAttempted

\* A sample of the point cloud is a 12-bit value.
InRange(v) == v \in 0..4095

\* When the point cloud is delivered (line 211) it has 9600 elements, each in
\* [0, 4095].
C12_AtDelivery ==
    pc = "print" =>
        /\ Len(point_cloud_3d) = point_cloud_3d_size
        /\ \A k \in 1..point_cloud_3d_size : InRange(point_cloud_3d[k])

\* A step that changes the point cloud creates it zeroed, drops it at the end
\* of the loop body, or is a pass of the unpack loop that stores two elements
\* in [0, 4095] and leaves every other element as it was.
C12_Step ==
    point_cloud_3d' # point_cloud_3d =>
        \/ point_cloud_3d' = Zeros(point_cloud_3d_size)
        \/ point_cloud_3d' = <<>>
        \/ /\ pc = "unpack"
           /\ point_cloud_3d' =
                 [point_cloud_3d EXCEPT
                     ![iter_point_cloud + 1] = point_cloud_3d'[iter_point_cloud + 1],
                     ![iter_point_cloud + 2] = point_cloud_3d'[iter_point_cloud + 2]]
           /\ InRange(point_cloud_3d'[iter_point_cloud + 1])
           /\ InRange(point_cloud_3d'[iter_point_cloud + 2])

\* C12: point-cloud invariant.  At every step of the unpack loop and when the
\* point cloud is delivered, every element of the 9600-element array is in
\* [0, 4095]: the array starts zeroed, every step keeps the elements it does
\* not store and stores values in range, and the delivered array is in range.
C12_PointCloudInRange == []C12_AtDelivery /\ [][C12_Step]_vars

\* C12 witness: a pass of the unpack loop has stored a sample above 255 (the
\* low nibble of the second byte is in bits 8..11).
C12_Witness ==
    /\ pc = "unpack"
    /\ iter_point_cloud = 1
    /\ point_cloud_3d[1] = 1042
    /\ InRange(point_cloud_3d[2])

\* C14 (as claimed): read_frame accumulates exactly one frame's bytes across
\* timeouts.  The buffer it validates is the next payload_size + 6 bytes of
\* the line counted from the start of the call: no byte that a timed-out
\* attempt took from the line is missing in front of the validated buffer.
C14_AccumulatesAcrossTimeouts ==
    (Returned /\ DecodeRan) =>
        /\ Len(frame) = payload_size + 6
        /\ skipped = 0

\* read_frame is running or has returned to main, which has not yet taken
\* the result.
InReadFrame == pc = "rf_loop" \/ Returned

\* C15: a read error other than a timeout is fatal.  Whatever number of
\* timeouts preceded it, the attempt that failed is the last attempt of the
\* call, and read_frame has returned an error right after it.
C15_OtherErrorIsFatal ==
    InReadFrame =>
        \A k \in 1..Len(reads) :
            reads[k] = "Other" =>
                /\ k = Len(reads)
                /\ Returned
                /\ rf_result.kind = "ReadError"

\* C15 witness: two timeouts, then another error, returned as an error after
\* the third attempt.
C15_Witness ==
    /\ Returned
    /\ reads = <<"TimedOut", "TimedOut", "Other">>
    /\ rf_result.kind = "ReadError"

\* C16: after a complete read whose bytes fail validation read_frame returns
\* the error with no further read attempt, and an attempt other than the
\* first is only ever issued directly after a timed-out attempt.
C16_NoReadAfterDecodeError ==
    InReadFrame =>
        /\ \A k \in 1..(Len(reads) - 1) : reads[k] = "TimedOut"
        /\ DecodeRan =>
              /\ Returned
              /\ rf_result.kind \in {"Ok", "BadMagic", "BadSize", "BadChecksum"}
              /\ rf_result.kind # "Ok" => ~IsValidWire(frame, payload_size)

\* C16 witness: after a timeout a complete read failed the checksum
\* comparison and read_frame returned that error from the second attempt.
C16_Witness ==
    /\ Returned
    /\ reads = <<"TimedOut", "Ok">>
    /\ rf_result.kind = "BadChecksum"

\* C17: linear session ordering.  The command frames written so far are a
\* prefix of SetBaud, QueryDeviceInfo, StartStream, StopStream (so none is
\* written twice and StopStream never comes before StartStream), and a
\* read of a streaming frame (payload_size 14401) is only issued once
\* StartStream has been written.
C17_LinearSession ==
    /\ Len(written) <= 4
    /\ \A k \in 1..Len(written) : written[k].bytes = Commands[k]
    /\ (InReadFrame /\ payload_size = 14401) =>
          (Len(written) = 3 /\ written[3].ok)

\* C17 witness: the session wrote all four commands with success, and a
\* read of a streaming frame was issued between the last two.
C17_Witness ==
    /\ pc = "done"
    /\ Len(written) = 4
    /\ \A k \in 1..4 : written[k].ok
    /\ payload_size = 14401

\* The frame is a valid device-info frame: header, size 7, seven payload
\* bytes and the checksum of these.
IsDeviceInfoFrame(f) ==
    /\ f.header = Header
    /\ f.size = 7
    /\ Len(f.payload) = 7
    /\ f.checksum = XorOfSizeAndPayload(f)

\* C18: StartStream is written, and the streaming loop entered, only after
\* read_frame returned a valid device-info frame with a 7-byte payload; when
\* the device-info read failed, main has terminated there, with only SetBaud
\* and QueryDeviceInfo written.
C18_StartOnlyAfterDeviceInfo ==
    /\ (Len(written) >= 3 \/ pc \in {"flush", "start", "loop", "stop"}
           \/ payload_size = 14401)
          => IsDeviceInfoFrame(device_info_read)
    /\ (pc = "devinfo_ret" /\ rf_result.kind # "Ok") =>
          (Len(written) = 2 /\ device_info_read = NoFrame)
    /\ (pc = "panicked" /\ device_info_read = NoFrame) => Len(written) = 2

\* C18 witness: the device-info read failed and main terminated there,
\* without writing StartStream.
C18_Witness ==
    /\ pc = "panicked"
    /\ device_info_read = NoFrame
    /\ Len(written) = 2
    /\ payload_size = 7

\* Once the streaming loop is left (pc "stop": cancellation seen at the loop
\* check, or a streaming read_frame returned an error) no read is active and
\* StopStream has not been written yet; once main has returned after
\* StartStream was written, StopStream is its fourth and last write.
C19_StopOnce ==
    /\ pc = "stop" => (Len(written) = 3 /\ caller = "none" /\ reads = <<>>)
    /\ (pc = "done" /\ Len(written) >= 3 /\ written[3].ok) =>
          /\ Len(written) = 4
          /\ written[4].bytes = Commands[4]
          /\ caller = "none"

\* From the exit of the streaming loop on, the only transport operation is
\* the one write of StopStream, succeeding or not, after which main returns:
\* nothing is read from the line any more.
C19_Step ==
    pc \in {"stop", "done"} =>
        /\ stream' = stream
        /\ UNCHANGED rfVars
        /\ \/ pc' = pc /\ written' = written
           \/ /\ pc = "stop"
              /\ pc' = "done"
              /\ Len(written') = 4
              /\ SubSeq(written', 1, 3) = written

\* C19: streaming-loop exit.  Once the cancellation flag is seen set at the
\* loop check, or a streaming read_frame returned an error, no further read
\* is issued, StopStream is written exactly once (not again when the write
\* fails), and that write is the last transport operation of the session.
C19_LoopExit == []C19_StopOnce /\ [][C19_Step]_vars

\* C19 witness: the loop was left and the write of StopStream failed; main
\* returned without writing it again.
C19_Witness ==
    /\ pc = "done"
    /\ Len(written) = 4
    /\ written[3].ok
    /\ ~written[4].ok

=============================================================================
